---- MODULE Spec2Model ----
(***************************************************************************)
(* Model of appsolicitud.py: the retry wrapper with_backoff and the        *)
(* "Solicitudes CRM" page (the first handler for that section): the        *)
(* Area -> Perfil -> Rol -> Horario cascade kept in st.session_state and   *)
(* the two submit paths that append a row to Sheet1 through with_backoff.  *)
(*                                                                         *)
(* One Streamlit script run is one action: a user event on one widget (or  *)
(* a form submit) reruns the script top to bottom.  A run that reaches     *)
(* with_backoff continues with one Attempt step per loop iteration and     *)
(* ends with SubmitDone, the code after the call (st.success and           *)
(* enviar_correo, or the except branch).  Navigate is a run started from   *)
(* the sidebar: it goes through the if/elif dispatch on the section.       *)
(***************************************************************************)
EXTENDS Integers, Sequences, FiniteSets, TLC

VARIABLES
    sel_tipo, sel_area, sel_perfil, sel_rol, sel_horario, sel_turno,
    sheet,        \* rows of sheet_solicitudes (Sheet1), oldest first
    msg,          \* what the last run showed: st.warning / st.success / st.error
    pc,           \* "idle" | "calling" | "returned" | "raised"
    fila,         \* the row handed to with_backoff(append_row, fila_sol)
    bo_i,         \* loop variable i of with_backoff
    bo_calls,     \* number of invocations of fn in the current call
    bo_slept,     \* the time the current call has slept in all
    bo_sleeps,    \* the number of time.sleep calls of the current call
    bo_onlyRate,  \* every failure of the current call so far was a rate limit
    fn_err,       \* the exception fn raised last in the current call
    bo_err,       \* the exception that leaves with_backoff
    bo_result,    \* the value with_backoff returns
    ev,           \* the user event that started the last run
    prev,         \* the cascade selection before the last run
    inputs,       \* what the widgets of the form hold when the run has ended
    nav_index,    \* st.session_state.nav_index: the section of the sidebar
    handlers,     \* the branches of the section dispatch the last run executed
    mail          \* what enviar_correo did in the last run

vars == <<sel_tipo, sel_area, sel_perfil, sel_rol, sel_horario, sel_turno,
          sheet, msg, pc, fila, bo_i, bo_calls, bo_slept, bo_sleeps,
          bo_onlyRate, fn_err, bo_err, bo_result, ev, prev, inputs,
          nav_index, handlers, mail>>

selVars == <<sel_tipo, sel_area, sel_perfil, sel_rol, sel_horario, sel_turno>>
callerVars == <<sel_tipo, sel_area, sel_perfil, sel_rol, sel_horario, sel_turno,
                msg, fila, ev, prev, inputs, nav_index, handlers, mail>>
boVars  == <<bo_i, bo_calls, bo_slept, bo_sleeps, bo_onlyRate, fn_err,
            bo_err, bo_result>>

----------------------------------------------------------------------------
(* Bounds of the model *)

\* random.random() is drawn from {0, 1/JitterSteps, ..., (JitterSteps-1)/JitterSteps};
\* every duration below is a number of 1/JitterSteps seconds.
JitterSteps == 2

\* submits are accepted, and a request whose answer is lost is written,
\* while Sheet1 holds fewer rows than this
MaxRows == 1

----------------------------------------------------------------------------
(* Python helpers *)

Min(a, b) == IF a <= b THEN a ELSE b

RECURSIVE Pow2(_)
Pow2(n) == IF n = 0 THEN 1 ELSE 2 * Pow2(n - 1)

\* x in list
In(x, s) == \E k \in 1..Len(s) : s[k] = x

\* list.index(x): 0-based position of the first occurrence
IndexOf(s, x) == (CHOOSE k \in 1..Len(s) : s[k] = x /\ \A m \in 1..(k-1) : s[m] # x) - 1

\* list[index], 0-based
At(s, index) == s[index + 1]

\* A dict is a sequence of <<key, value>> pairs in insertion order.
Keys(d) == [k \in 1..Len(d) |-> d[k][1]]
HasKey(d, key) == \E k \in 1..Len(d) : d[k][1] = key
Get(d, key) == d[CHOOSE k \in 1..Len(d) : d[k][1] = key][2]
GetOr(d, key, default) == IF HasKey(d, key) THEN Get(d, key) ELSE default

----------------------------------------------------------------------------
(* Catalogs: data/estructura_roles.json, numeros_por_rol.json, horarios.json *)

Unsel == "Selecciona..."
NoAplica == "No aplica"

estructura_roles ==
    << <<"Ventas",  << <<"Agente de Call Center", <<"Agente Ventas", "Rol Comun">> >>,
                       <<"Ejecutivo AC",          <<"Rol Comun">> >> >> >>,
       <<"Soporte", << <<"Agente de Call Center", <<"Rol Comun">> >>,
                       <<"Supervisor",            <<"Supervisor Soporte">> >> >> >> >>

numeros_por_rol ==
    << <<"Agente Ventas",      << <<"Numero_IN", <<"5001">> >> >> >>,
       <<"Supervisor Soporte", << <<"Numero_IN", <<>> >>,       <<"Numero_Saliente", <<"9002">> >> >> >> >>

horarios_dict ==
    << <<"Matutino", "6am-2pm">> >>

PerfilesConHorario == {"Agente de Call Center", "Ejecutivo AC"}

----------------------------------------------------------------------------
(* with_backoff *)

MaxAttemptsMut == 5 + 1
MaxAttempts == 5     \* for i in range(5)
MaxWait == 16        \* min(..., 16)

\* Exceptions: the class and the pieces of text that str(e) contains.
Err429        == [cls |-> "APIError",        text |-> {"429", "RESOURCE_EXHAUSTED"}]
Err403Rate    == [cls |-> "APIError",        text |-> {"403", "rateLimitExceeded"}]
ErrPermission == [cls |-> "APIError",        text |-> {"403", "PERMISSION_DENIED"}]
ErrNotFound   == [cls |-> "APIError",        text |-> {"404", "NOT_FOUND"}]
ErrConnection == [cls |-> "ConnectionError", text |-> {"timed out"}]
ErrUnknown    == [cls |-> "Exception",       text |-> {"unexpected"}]
NoErr         == [cls |-> "None",            text |-> {}]

FnErrors == {Err429, Err403Rate, ErrPermission, ErrNotFound, ErrConnection, ErrUnknown}

\* fn.__name__ of the wrapped operation (sheet_solicitudes.append_row)
FnName == "append_row"

\* "sub" in str(e)
Contains(e, sub) == sub \in e.text

\* except APIError as e
IsAPIError(e) == e.cls = "APIError"

\* if "429" in str(e) or ("403" in str(e) and "rateLimitExceeded" in str(e))
IsRateLimitMut(e) == Contains(e, "429") \/ Contains(e, "403")
IsRateLimit(e) == Contains(e, "429") \/ (Contains(e, "403") /\ Contains(e, "rateLimitExceeded"))

\* the exception fn raised is retried (sleep, continue) rather than re-raised
IsRetriedMut(e) == IsAPIError(e) /\ IsRateLimit(e)
IsRetried(e) == IF IsAPIError(e) THEN IsRateLimit(e) ELSE TRUE

\* min(1*(2**i) + random.random(), 16), jitter counted in 1/JitterSteps s
BackoffMut(i, jitter) == 1 * Pow2(i) * JitterSteps + jitter
BackoffFlat(i, jitter) == Min(1 * JitterSteps + jitter, MaxWait * JitterSteps)
Backoff(i, jitter) == Min(1 * Pow2(i) * JitterSteps + jitter, MaxWait * JitterSteps)

\* range(5)
LoopRange == 0..(MaxAttempts - 1)

\* the for loop is over once i has run through range(5)
LoopOverMut(i) == i > MaxAttempts
LoopOver(i) == i >= MaxAttempts

\* raise Exception(f"Failed after multiple retries for {fn.__name__}")
ExhaustedErrMut(name) == [cls |-> "Exception", text |-> {"Failed after multiple retries"}]
ExhaustedErr(name) == [cls |-> "Exception", text |-> {"Failed after multiple retries for", name}]

\* the value append_row returns: the response naming the updated row
FnReturnMut(rows) == 0
FnReturn(rows) == Len(rows)

\* fn may raise this exception after its request has taken effect: the
\* answer of the server is lost (a timeout, a dropped connection)
ResponseLost(e) == e.cls = "ConnectionError"

\* return fn(*args, **kwargs): fn succeeds
AttemptOk ==
    /\ pc = "calling"
    /\ bo_i \in LoopRange
    /\ sheet' = Append(sheet, fila)
    /\ bo_calls' = bo_calls + 1
    /\ bo_result' = FnReturn(sheet')
    /\ pc' = "returned"
    /\ UNCHANGED <<bo_i, bo_slept, bo_sleeps, bo_onlyRate, fn_err, bo_err>>
    /\ UNCHANGED callerVars

\* fn raises an exception that is re-raised at once (the bare raise)
AttemptRaise ==
    /\ pc = "calling"
    /\ bo_i \in LoopRange
    /\ \E e \in FnErrors :
        /\ ~IsRetried(e)
        /\ fn_err' = e
        /\ bo_err' = e
    /\ bo_calls' = bo_calls + 1
    /\ pc' = "raised"
    /\ UNCHANGED <<sheet, bo_i, bo_slept, bo_sleeps, bo_onlyRate, bo_result>>
    /\ UNCHANGED callerVars

\* fn raises an exception that is retried: sleep, continue;
\* when the loop is over, the final raise
AttemptRetry ==
    /\ pc = "calling"
    /\ bo_i \in LoopRange
    /\ \E e \in FnErrors, jitter \in 0..(JitterSteps - 1), written \in BOOLEAN :
        /\ IsRetried(e)
        /\ written => (ResponseLost(e) /\ Len(sheet) < MaxRows)
        /\ sheet' = IF written THEN Append(sheet, fila) ELSE sheet
        /\ fn_err' = e
        /\ bo_onlyRate' = (bo_onlyRate /\ IsAPIError(e) /\ IsRateLimit(e))
        /\ bo_slept' = bo_slept + Backoff(bo_i, jitter)
        /\ bo_sleeps' = bo_sleeps + 1
    /\ bo_calls' = bo_calls + 1
    /\ bo_i' = bo_i + 1
    /\ IF LoopOver(bo_i + 1)
       THEN pc' = "raised" /\ bo_err' = ExhaustedErr(FnName)
       ELSE pc' = "calling" /\ bo_err' = bo_err
    /\ UNCHANGED bo_result
    /\ UNCHANGED callerVars

Attempt == AttemptOk \/ AttemptRaise \/ AttemptRetry

----------------------------------------------------------------------------
(* Widgets and text helpers *)

\* A user event: the key of the widget the user changed and its new value;
\* for a form submit, the values of the widgets inside the form.
NoForm == [nombre |-> "", correo |-> "", correo_solicitante |-> "",
           numero_in |-> "", numero_saliente |-> ""]
NoEvent == [key |-> "", val |-> "", form |-> NoForm]

\* st.selectbox(label, options, index=index, key=key): the value the user
\* just picked in this widget, else the option at index
Selectbox(options, index, e, key) ==
    IF e.key = key THEN e.val ELSE At(options, index)

\* st.form(..., clear_on_submit=True)
clear_on_submit == TRUE

\* The defaults of the widgets of a form: empty text inputs; a number
\* selectbox, where the form has one, stands at its first option
FormDefaults(show) ==
    [nombre |-> "", correo |-> "", correo_solicitante |-> "",
     numero_in |-> IF show THEN NoAplica ELSE "",
     numero_saliente |-> IF show THEN NoAplica ELSE ""]

\* The widgets of the form as the browser shows them once a submit has been
\* sent: with clear_on_submit they are back at their defaults, else they keep
\* what was sent.  (What a user types is sent with the submit only; text that
\* was typed and not sent never reaches the script.)
AfterSubmit(clear, f, show) == IF clear THEN FormDefaults(show) ELSE f

\* a number selectbox of the form in a run that is no submit: it keeps its
\* value while that is one of its options, else it stands at the first
RenderNum(show, options, value) ==
    IF ~show THEN "" ELSE IF In(value, options) THEN value ELSE options[1]

\* what users type into the text inputs
Nombres      == {"", " Ana "}
Correos      == {"", "ana@edu.uag.mx"}
Solicitantes == {"", "Jefe@edu.uag.mx"}

\* str.strip()
Strip(t) == IF t = " Ana " THEN "Ana" ELSE t

\* _email_norm: the first e-mail address in the text, lower-cased
EmailNorm(t) == IF t = "Jefe@edu.uag.mx" THEN "jefe@edu.uag.mx" ELSE t

----------------------------------------------------------------------------
(* Navigation and the dispatch on the section *)

\* nav_options (the labels without their emoji)
nav_options == <<"Ver el estado de mis solicitudes", "Solicitudes CRM",
                 "Incidencias CRM", "Mejoras y sugerencias", "Zona Admin">>

\* The chain if seccion == ... / elif seccion == ...: the section each branch
\* compares with and the branch, named by its section and its line.
Branches ==
    << <<"Ver el estado de mis solicitudes", "consulta_366">>,
       <<"Solicitudes CRM",                  "solicitudes_512">>,
       <<"Solicitudes CRM",                  "solicitudes_720">>,
       <<"Mejoras y sugerencias",            "quejas_929">>,
       <<"Zona Admin",                       "admin_960">> >>

\* the branches one run executes: the first branch of the chain whose
\* condition holds, none when no condition holds (the chain has no else)
DispatchMut(seccion) ==
    {Branches[k][2] : k \in {j \in 1..Len(Branches) : Branches[j][1] = seccion}}
Dispatch(seccion) ==
    {Branches[k][2] : k \in {j \in 1..Len(Branches) :
                                /\ Branches[j][1] = seccion
                                /\ \A m \in 1..(j - 1) : Branches[m][1] # seccion}}

\* seccion = nav_options[nav_index]
Seccion(index) == At(nav_options, index)

\* the run of the current section executes the first "Solicitudes CRM" branch
InSolicitudes == "solicitudes_512" \in Dispatch(Seccion(nav_index))

\* a run that leaves the sidebar alone
SameSection ==
    /\ handlers' = Dispatch(Seccion(nav_index))
    /\ UNCHANGED nav_index

----------------------------------------------------------------------------
(* enviar_correo *)

\* what a call of enviar_correo comes to: SEND_EMAILS is off, the credentials
\* are missing (st.warning), the message is sent, or yagmail raises and the
\* exception is caught (st.warning)
MailOutcomes == {"disabled", "no_credentials", "sent", "failed"}

\* what the page shows of the submit once enviar_correo is back: the call
\* returns in every case, so the except branch of the caller is not taken
AfterCorreoMut(shown, outcome) == IF outcome = "failed" THEN "error" ELSE shown
AfterCorreo(shown, outcome) == shown

----------------------------------------------------------------------------
(* The cascade of one script run, section "Solicitudes CRM" *)

TipoOpts == <<Unsel, "Alta", "Modificación", "Baja">>
AreaOpts == <<Unsel>> \o Keys(estructura_roles)

\* perfiles_disp
PerfilesDisp(area) ==
    <<Unsel>> \o (IF HasKey(estructura_roles, area)
                  THEN Keys(Get(estructura_roles, area)) ELSE <<>>)

\* roles_disp
RolesDispMut(area, perfil) ==
    <<Unsel, "Agente Ventas", "Rol Comun", "Supervisor Soporte">>
RolesDisp(area, perfil) ==
    <<Unsel>> \o (IF HasKey(estructura_roles, area)
                     /\ HasKey(Get(estructura_roles, area), perfil)
                  THEN Get(Get(estructura_roles, area), perfil) ELSE <<>>)

\* horarios_disp
HorariosDispMut == <<Unsel>> \o Keys(horarios_dict) \o <<"Nocturno">>
HorariosDisp == <<Unsel>> \o Keys(horarios_dict)

\* if st.session_state.sel_x not in options: st.session_state.sel_x = "Selecciona..."
KeepIfListed(value, options) == IF ~In(value, options) THEN Unsel ELSE value

\* requiere_horario
RequiereHorarioMut(perfil) == perfil # Unsel
RequiereHorario(perfil) == perfil \in PerfilesConHorario

RunTipo(e) ==
    Selectbox(TipoOpts, IndexOf(TipoOpts, sel_tipo), e, "sol_tipo_select_top")

RunArea(e) ==
    Selectbox(AreaOpts,
              IF In(sel_area, AreaOpts) THEN IndexOf(AreaOpts, sel_area) ELSE 0,
              e, "sol_area_select")

RunPerfil(e) ==
    LET disp == PerfilesDisp(RunArea(e))
    IN  Selectbox(disp, IndexOf(disp, KeepIfListed(sel_perfil, disp)), e, "sol_perfil_select")

RunRol(e) ==
    LET disp == RolesDisp(RunArea(e), RunPerfil(e))
    IN  Selectbox(disp, IndexOf(disp, KeepIfListed(sel_rol, disp)), e, "sol_rol_select")

RunHorario(e) ==
    IF RequiereHorario(RunPerfil(e))
    THEN Selectbox(HorariosDisp, IndexOf(HorariosDisp, KeepIfListed(sel_horario, HorariosDisp)),
                   e, "sol_horario_select")
    ELSE Unsel

RunTurnoMut(e) ==
    IF RequiereHorario(RunPerfil(e))
    THEN (IF RunHorario(e) # Unsel THEN GetOr(horarios_dict, RunHorario(e), "") ELSE "")
    ELSE sel_turno
RunTurno(e) ==
    IF RequiereHorario(RunPerfil(e))
    THEN (IF RunHorario(e) # Unsel THEN GetOr(horarios_dict, RunHorario(e), "") ELSE "")
    ELSE ""

\* the selection as the user sees it
Seleccion == [tipo |-> sel_tipo, area |-> sel_area, perfil |-> sel_perfil,
              rol |-> sel_rol, horario |-> sel_horario, turno |-> sel_turno]

\* The script run up to the forms: the Tipo selectbox, then either the Baja
\* branch (the cascade is not run) or the cascade.
RunCascade(e) ==
    /\ sel_tipo' = RunTipo(e)
    /\ IF RunTipo(e) = "Baja"
       THEN UNCHANGED <<sel_area, sel_perfil, sel_rol, sel_horario, sel_turno>>
       ELSE /\ sel_area' = RunArea(e)
            /\ sel_perfil' = RunPerfil(e)
            /\ sel_rol' = RunRol(e)
            /\ sel_horario' = RunHorario(e)
            /\ sel_turno' = RunTurno(e)
    /\ ev' = e
    /\ prev' = Seleccion

\* show_numeros = st.session_state.sel_rol in numeros_por_rol.keys()
ShowNumeros(rol) == HasKey(numeros_por_rol, rol)

\* nums_in / nums_out
NumsIn(rol)  == <<NoAplica>> \o GetOr(GetOr(numeros_por_rol, rol, <<>>), "Numero_IN", <<>>)
NumsOut(rol) == <<NoAplica>> \o GetOr(GetOr(numeros_por_rol, rol, <<>>), "Numero_Saliente", <<>>)

\* a run that is no submit: nothing is shown, nothing is sent
Rerun(e) ==
    /\ pc = "idle"
    /\ InSolicitudes
    /\ SameSection
    /\ RunCascade(e)
    /\ msg' = "none"
    /\ mail' = "none"
    /\ LET show == RunTipo(e) # "Baja" /\ ShowNumeros(RunRol(e))
       IN  inputs' = [inputs EXCEPT
                        !.numero_in = RenderNum(show, NumsIn(RunRol(e)), @),
                        !.numero_saliente = RenderNum(show, NumsOut(RunRol(e)), @)]
    /\ UNCHANGED <<sheet, pc, fila>>
    /\ UNCHANGED boVars

Pick(key, v) == [key |-> key, val |-> v, form |-> NoForm]

SetTipo(v) ==
    /\ In(v, TipoOpts) /\ v # sel_tipo
    /\ Rerun(Pick("sol_tipo_select_top", v))

SetArea(v) ==
    /\ sel_tipo # "Baja"
    /\ In(v, AreaOpts) /\ v # sel_area
    /\ Rerun(Pick("sol_area_select", v))

SetPerfil(v) ==
    /\ sel_tipo # "Baja"
    /\ In(v, PerfilesDisp(sel_area)) /\ v # sel_perfil
    /\ Rerun(Pick("sol_perfil_select", v))

SetRol(v) ==
    /\ sel_tipo # "Baja"
    /\ In(v, RolesDisp(sel_area, sel_perfil)) /\ v # sel_rol
    /\ Rerun(Pick("sol_rol_select", v))

SetHorario(v) ==
    /\ sel_tipo # "Baja"
    /\ RequiereHorario(sel_perfil)
    /\ In(v, HorariosDisp) /\ v # sel_horario
    /\ Rerun(Pick("sol_horario_select", v))

----------------------------------------------------------------------------
(* The forms and the submit *)

\* what the user can send with the Alta/Modificación form
FormsSol(rol) ==
    [nombre : Nombres, correo : Correos, correo_solicitante : Solicitantes,
     numero_in : IF ShowNumeros(rol) THEN {NumsIn(rol)[k] : k \in 1..Len(NumsIn(rol))} ELSE {""},
     numero_saliente : IF ShowNumeros(rol) THEN {NumsOut(rol)[k] : k \in 1..Len(NumsOut(rol))} ELSE {""}]

\* what the user can send with the Baja form
FormsBaja ==
    [nombre : Nombres, correo : Correos, correo_solicitante : Solicitantes,
     numero_in : {""}, numero_saliente : {""}]

\* the three checks after "if submitted_sol", in order; each ends in st.stop()
ValidarSolMut(tipo, f, area, perfil, rol, horario, requiere) ==
    IF tipo = Unsel \/ f.nombre = "" \/ f.correo = "" \/ f.correo_solicitante = ""
    THEN "warn_basicos"
    ELSE IF area = Unsel \/ perfil = Unsel \/ rol = Unsel
    THEN "warn_cascada"
    ELSE "ok"
ValidarSol(tipo, f, area, perfil, rol, horario, requiere) ==
    IF tipo = Unsel \/ f.nombre = "" \/ f.correo = "" \/ f.correo_solicitante = ""
    THEN "warn_basicos"
    ELSE IF area = Unsel \/ perfil = Unsel \/ rol = Unsel
    THEN "warn_cascada"
    ELSE IF requiere /\ horario = Unsel
    THEN "warn_horario"
    ELSE "ok"

\* the check after "if submitted_baja"
ValidarBajaMut(f) ==
    IF f.nombre = "" \/ f.correo = ""
    THEN "warn_basicos"
    ELSE "ok"
ValidarBaja(f) ==
    IF f.nombre = "" \/ f.correo = "" \/ f.correo_solicitante = ""
    THEN "warn_basicos"
    ELSE "ok"

\* num_in_val / num_out_val
NumValMut(show, numero) == IF ~show THEN "" ELSE numero
NumVal(show, numero) == IF ~show \/ numero \in {NoAplica, ""} THEN "" ELSE numero

\* str(uuid4()): an id that no row of the sheet carries (ids are numbered;
\* the chance of drawing a used one is left out)
UUID4(rows) ==
    CHOOSE n \in 1..(Len(rows) + 1) :
        /\ \A k \in 1..Len(rows) : rows[k].IDS # n
        /\ \A m \in 1..(n - 1) : \E k \in 1..Len(rows) : rows[k].IDS = m

\* fila_sol of the Alta/Modificación path
FilaSol(tipo, f, area, perfil, rol, horario, turno, show, ids) ==
    [TipoS |-> tipo, NombreS |-> Strip(f.nombre), CorreoS |-> Strip(f.correo),
     AreaS |-> area, PerfilS |-> perfil, RolS |-> rol,
     NumeroINS |-> NumVal(show, f.numero_in),
     NumeroSalienteS |-> NumVal(show, f.numero_saliente),
     HorarioS |-> horario, TurnoS |-> turno,
     SolicitanteS |-> EmailNorm(f.correo_solicitante),
     EstadoS |-> "Pendiente", IDS |-> ids,
     SatisfaccionS |-> "", ComentarioSatisfaccionS |-> ""]

\* fila_sol of the Baja path
FilaBaja(f, ids) ==
    [TipoS |-> "Baja", NombreS |-> Strip(f.nombre), CorreoS |-> Strip(f.correo),
     AreaS |-> "N/A", PerfilS |-> "N/A", RolS |-> "N/A",
     NumeroINS |-> "", NumeroSalienteS |-> "",
     HorarioS |-> "", TurnoS |-> "",
     SolicitanteS |-> EmailNorm(f.correo_solicitante),
     EstadoS |-> "Pendiente", IDS |-> ids,
     SatisfaccionS |-> "", ComentarioSatisfaccionS |-> ""]

NoFila == [TipoS |-> ""]

\* the state of with_backoff before its first iteration
BoStart ==
    /\ bo_i' = 0
    /\ bo_calls' = 0
    /\ bo_slept' = 0
    /\ bo_sleeps' = 0
    /\ bo_onlyRate' = TRUE
    /\ fn_err' = NoErr
    /\ bo_err' = NoErr
    /\ bo_result' = 0

\* a rejected submit: st.warning, st.stop()
Reject(warning) ==
    /\ msg' = warning
    /\ UNCHANGED <<sheet, pc, fila>>
    /\ UNCHANGED boVars

\* a valid submit: with_backoff(sheet_solicitudes.append_row, fila_sol, ...)
Call(row) ==
    /\ msg' = "none"
    /\ fila' = row
    /\ pc' = "calling"
    /\ BoStart
    /\ UNCHANGED sheet

\* "Enviar Solicitud" on solicitud_form_alta_mod
SubmitSol(f) ==
    /\ pc = "idle"
    /\ InSolicitudes
    /\ SameSection
    /\ mail' = "none"
    /\ sel_tipo # "Baja"
    /\ Len(sheet) < MaxRows
    /\ f \in FormsSol(sel_rol)
    /\ LET e        == [key |-> "solicitud_form_alta_mod", val |-> "", form |-> f]
           requiere == RequiereHorario(RunPerfil(e))
           horario  == IF requiere THEN RunHorario(e) ELSE ""
           turno    == IF requiere THEN RunTurno(e) ELSE ""
           show     == ShowNumeros(RunRol(e))
           verdict  == ValidarSol(RunTipo(e), f, RunArea(e), RunPerfil(e), RunRol(e),
                                  horario, requiere)
       IN  /\ RunCascade(e)
           /\ inputs' = AfterSubmit(clear_on_submit, f, show)
           /\ IF verdict # "ok"
              THEN Reject(verdict)
              ELSE Call(FilaSol(RunTipo(e), f, RunArea(e), RunPerfil(e), RunRol(e),
                                horario, turno, show, UUID4(sheet)))

\* "Enviar Baja" on solicitud_form_baja
SubmitBaja(f) ==
    /\ pc = "idle"
    /\ InSolicitudes
    /\ SameSection
    /\ mail' = "none"
    /\ sel_tipo = "Baja"
    /\ Len(sheet) < MaxRows
    /\ f \in FormsBaja
    /\ LET e == [key |-> "solicitud_form_baja", val |-> "", form |-> f]
       IN  /\ RunCascade(e)
           /\ inputs' = AfterSubmit(clear_on_submit, f, FALSE)
           /\ IF ValidarBaja(f) # "ok"
              THEN Reject(ValidarBaja(f))
              ELSE Call(FilaBaja(f, UUID4(sheet)))

\* the code after with_backoff: st.success, or the except branch's st.error
SubmitDone ==
    /\ pc \in {"returned", "raised"}
    /\ IF pc = "returned"
       THEN \E outcome \in MailOutcomes :
               /\ mail' = outcome
               /\ msg' = AfterCorreo("success", outcome)
       ELSE /\ mail' = "none"
            /\ msg' = "error"
    /\ pc' = "idle"
    /\ fila' = NoFila
    /\ BoStart
    /\ UNCHANGED <<sheet, ev, prev, inputs, nav_index, handlers>>
    /\ UNCHANGED selVars

\* the user picks another section in the sidebar: the run executes the
\* branches of that section; the first "Solicitudes CRM" branch renders the
\* page from the session, the other branches leave its state alone
Navigate(index) ==
    /\ pc = "idle"
    /\ index \in 0..(Len(nav_options) - 1)
    /\ index # nav_index
    /\ nav_index' = index
    /\ handlers' = Dispatch(Seccion(index))
    /\ msg' = "none"
    /\ mail' = "none"
    /\ LET e == [key |-> "nav_radio_selector", val |-> Seccion(index), form |-> NoForm]
       IN  IF "solicitudes_512" \in Dispatch(Seccion(index))
           THEN /\ RunCascade(e)
                /\ inputs' = FormDefaults(RunTipo(e) # "Baja" /\ ShowNumeros(RunRol(e)))
           ELSE /\ ev' = e
                /\ prev' = Seleccion
                /\ inputs' = FormDefaults(FALSE)
                /\ UNCHANGED selVars
    /\ UNCHANGED <<sheet, pc, fila>>
    /\ UNCHANGED boVars

----------------------------------------------------------------------------
(* Specification *)

Init ==
    /\ sel_tipo = Unsel
    /\ sel_area = Unsel
    /\ sel_perfil = Unsel
    /\ sel_rol = Unsel
    /\ sel_horario = Unsel
    /\ sel_turno = ""
    /\ sheet = <<>>
    /\ msg = "none"
    /\ pc = "idle"
    /\ fila = NoFila
    /\ bo_i = 0
    /\ bo_calls = 0
    /\ bo_slept = 0
    /\ bo_sleeps = 0
    /\ bo_onlyRate = TRUE
    /\ fn_err = NoErr
    /\ bo_err = NoErr
    /\ bo_result = 0
    /\ ev = NoEvent
    /\ prev = [tipo |-> Unsel, area |-> Unsel, perfil |-> Unsel,
               rol |-> Unsel, horario |-> Unsel, turno |-> ""]
    /\ inputs = NoForm
    /\ nav_index = 0
    /\ handlers = Dispatch(Seccion(0))
    /\ mail = "none"

\* The tipos the user picks.  The code compares the tipo with "Baja" and
\* "Selecciona..." only, so "Alta" stands for "Modificación" too.
TiposPicked == {Unsel, "Alta", "Baja"}

AllValues == TiposPicked
             \cup {AreaOpts[k] : k \in 1..Len(AreaOpts)}
             \cup {"Agente de Call Center", "Ejecutivo AC", "Supervisor"}
             \cup {"Agente Ventas", "Rol Comun", "Supervisor Soporte"}
             \cup {HorariosDisp[k] : k \in 1..Len(HorariosDisp)}

Next ==
    \/ \E v \in AllValues : SetTipo(v)
    \/ \E v \in AllValues : SetArea(v)
    \/ \E v \in AllValues : SetPerfil(v)
    \/ \E v \in AllValues : SetRol(v)
    \/ \E v \in AllValues : SetHorario(v)
    \/ \E f \in FormsSol(sel_rol) : SubmitSol(f)
    \/ \E f \in FormsBaja : SubmitBaja(f)
    \/ AttemptOk
    \/ AttemptRaise
    \/ AttemptRetry
    \/ SubmitDone
    \/ \E index \in 0..(Len(nav_options) - 1) : Navigate(index)

Spec == Init /\ [][Next]_vars

\* a script run is not abandoned: the loop of with_backoff and the code after
\* it run to their end
FairSpec == Spec /\ WF_vars(AttemptOk \/ AttemptRaise \/ AttemptRetry) /\ WF_vars(SubmitDone)

----------------------------------------------------------------------------
(* Properties of with_backoff *)

RateLimitErrors == {Err429, Err403Rate}
FatalErrors     == {ErrPermission, ErrNotFound}
OtherErrors     == {ErrConnection, ErrUnknown}

\* the waits before jitter, in seconds, after the failure of attempt 0..4
PreJitter == <<1, 2, 4, 8, 16>>

\* the sum of the first k waits before jitter, in seconds, k = 0..5
SumPreJitter == <<0, 1, 3, 7, 15, 31>>

\* this step invokes fn, and fn raises an exception of the set errs
FailsWith(errs) == bo_calls' = bo_calls + 1 /\ pc' # "returned" /\ fn_err' \in errs

\* this step sleeps once, min(PreJitter + jitter, 16) seconds for some jitter
\* in [0,1), PreJitter taken at the attempt i that failed
SleepsBackoff(i) ==
    /\ bo_sleeps' = bo_sleeps + 1
    /\ \E jitter \in 0..(JitterSteps - 1) :
          bo_slept' - bo_slept = Min(PreJitter[i + 1] * JitterSteps + jitter, 16 * JitterSteps)

\* C1: whatever the wrapped operation does, one call of with_backoff invokes
\* it at most 5 times.
C1_AtMostFiveInvocations == bo_calls <= 5

C1_Witness == pc = "raised" /\ bo_calls = 5 /\ fn_err \in RateLimitErrors

C3_Step ==
    FailsWith(RateLimitErrors) =>
        /\ bo_i \in 0..4
        /\ bo_i' = bo_i + 1
        /\ SleepsBackoff(bo_i)
        /\ bo_slept' - bo_slept >= PreJitter[bo_i + 1] * JitterSteps
        /\ bo_slept' - bo_slept <= 16 * JitterSteps

C3_RateLimitBackoff == [][C3_Step]_vars

C3_Witness ==
    /\ fn_err = Err403Rate /\ bo_i = 5 /\ bo_sleeps = 5
    /\ bo_slept > SumPreJitter[6] * JitterSteps

\* C4: k < 5 rate-limit failures followed by a success: k+1 invocations, the
\* value of the successful invocation is returned, at least the first k waits
\* before jitter have been slept, and nothing is invoked after the success.
C4_State ==
    (pc = "returned" /\ bo_onlyRate) =>
        /\ bo_sleeps < 5
        /\ bo_calls = bo_sleeps + 1
        /\ bo_result = Len(sheet)
        /\ sheet[Len(sheet)] = fila
        /\ bo_slept >= SumPreJitter[bo_sleeps + 1] * JitterSteps

C4_Step ==
    pc = "returned" => (pc' = "idle" /\ sheet' = sheet /\ bo_calls' <= bo_calls)

C4_RateLimitedThenSuccess == [](C4_State) /\ [][C4_Step]_vars

C4_Witness ==
    /\ pc = "returned" /\ bo_onlyRate /\ bo_sleeps = 2 /\ bo_calls = 3
    /\ fn_err \in RateLimitErrors

\* C5: when all 5 attempts fail with retried failures, with_backoff raises the
\* "Failed after multiple retries" exception that names the operation, and it
\* raises that exception in no other case.
IsExhaustedErr(e) == e.cls = "Exception" /\ "Failed after multiple retries for" \in e.text

C5_ExhaustedAfterFive ==
    /\ (bo_calls = 5 /\ bo_sleeps = 5) =>
          (pc = "raised" /\ IsExhaustedErr(bo_err) /\ "append_row" \in bo_err.text)
    /\ (pc = "raised" /\ fn_err \notin FatalErrors) =>
          (IsExhaustedErr(bo_err) /\ "append_row" \in bo_err.text /\ bo_calls = 5 /\ bo_sleeps = 5)
    /\ ("Failed after multiple retries for" \in bo_err.text) => (bo_calls = 5 /\ bo_sleeps = 5)

C5_Witness ==
    /\ pc = "raised" /\ bo_calls = 5 /\ bo_sleeps = 5 /\ ~bo_onlyRate
    /\ "append_row" \in bo_err.text

\* C6: a failure that is no APIError (connection, timeout, anything unknown)
\* is retried: the same backoff is slept and, while fewer than 5 attempts
\* have been made, the loop goes on to the next invocation.
C6_Step ==
    FailsWith(OtherErrors) =>
        /\ bo_i \in 0..4
        /\ bo_i' = bo_i + 1
        /\ SleepsBackoff(bo_i)
        /\ (bo_calls' < 5 => pc' = "calling" /\ bo_i' = bo_calls')
        /\ (bo_calls' = 5 => pc' = "raised")

C7_Terminates ==
    /\ [](pc = "calling" => bo_i \in 0..4)
    /\ (pc = "calling") ~> (pc \in {"returned", "raised"})

C7_Witness == pc = "raised" /\ bo_i = 5 /\ fn_err \in OtherErrors /\ bo_onlyRate = FALSE

----------------------------------------------------------------------------
(* Properties of the cascade *)

\* rol is listed under area / perfil in estructura_roles
Listed(area, perfil, rol) ==
    \E a \in 1..Len(estructura_roles) :
        /\ estructura_roles[a][1] = area
        /\ \E p \in 1..Len(estructura_roles[a][2]) :
              /\ estructura_roles[a][2][p][1] = perfil
              /\ \E r \in 1..Len(estructura_roles[a][2][p][2]) :
                    estructura_roles[a][2][p][2][r] = rol

\* C8: right after the user sets the area, perfil, rol and horario are
\* unselected and turno is empty.
C8_AreaResetsChildren ==
    ev.key = "sol_area_select" =>
        (sel_perfil = Unsel /\ sel_rol = Unsel /\ sel_horario = Unsel /\ sel_turno = "")

\* C9: right after the user sets the perfil, rol and horario are unselected
\* and turno is empty.
C9_PerfilResetsChildren ==
    ev.key = "sol_perfil_select" =>
        (sel_rol = Unsel /\ sel_horario = Unsel /\ sel_turno = "")

\* C10: the form never holds a rol that is not listed under the selected
\* area and perfil: a rol listed only under the old perfil is unselected by
\* the run that changes the perfil, and a row handed to append_row names a
\* rol listed under its area and perfil.
C10_RolListedUnderPerfil ==
    /\ sel_rol = Unsel \/ Listed(sel_area, sel_perfil, sel_rol)
    /\ (ev.key = "sol_perfil_select" /\ ~Listed(sel_area, sel_perfil, prev.rol)) => sel_rol = Unsel
    /\ (pc = "calling" /\ fila.TipoS # "Baja") => Listed(fila.AreaS, fila.PerfilS, fila.RolS)

C10_Witness ==
    /\ ev.key = "sol_perfil_select"
    /\ prev.perfil = "Agente de Call Center" /\ prev.rol = "Agente Ventas"
    /\ sel_perfil = "Ejecutivo AC" /\ sel_rol = Unsel

----------------------------------------------------------------------------
(* Properties of the Baja path, the validation and the record *)

\* the rows of Sheet1 and the row a pending call of append_row carries
Records == {sheet[k] : k \in 1..Len(sheet)} \cup (IF pc = "calling" THEN {fila} ELSE {})

\* one of nombre, correo, correo_solicitante was sent empty
BasicsMissing(f) == f.nombre = "" \/ f.correo = "" \/ f.correo_solicitante = ""

\* the last run was a submit of the Alta/Modificación form
SolSubmitted == ev.key = "solicitud_form_alta_mod" /\ sel_tipo \in {"Alta", "Modificación"}

\* area, perfil, rol and (where the perfil requires one) horario are selected
CascadeResolved ==
    /\ sel_area # Unsel /\ sel_perfil # Unsel /\ sel_rol # Unsel
    /\ ~(sel_perfil \in {"Agente de Call Center", "Ejecutivo AC"} /\ sel_horario = Unsel)

\* the numbers the catalog lists for a rol under one key
NumbersListed(rol, key) ==
    IF \E k \in 1..Len(numeros_por_rol) : numeros_por_rol[k][1] = rol
    THEN LET entry == numeros_por_rol[CHOOSE k \in 1..Len(numeros_por_rol) : numeros_por_rol[k][1] = rol][2]
         IN  IF \E k \in 1..Len(entry) : entry[k][1] = key
             THEN entry[CHOOSE k \in 1..Len(entry) : entry[k][1] = key][2]
             ELSE <<>>
    ELSE <<>>

\* C11: while the tipo is Baja, area, perfil, rol and horario are unselected,
\* and after Baja and back to Alta or Modificación none of the values
\* selected before is still selected.
C11_BajaClearsCascade ==
    /\ sel_tipo = "Baja" =>
          (sel_area = Unsel /\ sel_perfil = Unsel /\ sel_rol = Unsel /\ sel_horario = Unsel)
    /\ (ev.key = "sol_tipo_select_top" /\ prev.tipo = "Baja" /\ sel_tipo \in {"Alta", "Modificación"}) =>
          /\ (prev.area # Unsel => sel_area # prev.area)
          /\ (prev.perfil # Unsel => sel_perfil # prev.perfil)
          /\ (prev.rol # Unsel => sel_rol # prev.rol)
          /\ (prev.horario # Unsel => sel_horario # prev.horario)

\* C12: a submit of the Baja form is rejected with the missing-basic-fields
\* warning exactly when nombre, correo or correo_solicitante is empty; else
\* its row is handed to append_row, whatever area, perfil, rol and horario
\* the session holds.
C12_BajaNeedsOnlyBasics ==
    ev.key = "solicitud_form_baja" =>
        /\ sel_tipo = "Baja"
        /\ BasicsMissing(ev.form) <=> msg = "warn_basicos"
        /\ BasicsMissing(ev.form) => (pc = "idle" /\ fila = NoFila)
        /\ ~BasicsMissing(ev.form) =>
              \/ pc \in {"calling", "returned", "raised"} /\ fila.TipoS = "Baja"
              \/ pc = "idle" /\ msg \in {"success", "error"}

C12_Witness ==
    /\ ev.key = "solicitud_form_baja" /\ pc = "calling" /\ fila.TipoS = "Baja"
    /\ sel_area = "Ventas" /\ sel_rol = "Rol Comun" /\ sel_horario = "Matutino"

\* the turno the table gives for a horario; empty for no horario
ShiftOf(horario) ==
    IF \E k \in 1..Len(horarios_dict) : horarios_dict[k][1] = horario
    THEN horarios_dict[CHOOSE k \in 1..Len(horarios_dict) : horarios_dict[k][1] = horario][2]
    ELSE ""

\* C13: in the form and in every record the turno is the one the table gives
\* for the horario, and it is empty when no horario is selected.
C13_TurnoFromHorario ==
    /\ sel_horario = Unsel \/ (\E k \in 1..Len(horarios_dict) : horarios_dict[k][1] = sel_horario)
    /\ sel_turno = ShiftOf(sel_horario)
    /\ (sel_horario = Unsel => sel_turno = "")
    /\ \A r \in Records :
          /\ r.TurnoS = ShiftOf(r.HorarioS)
          /\ (r.HorarioS \in {"", Unsel} => r.TurnoS = "")

C13_Witness ==
    /\ sel_horario = "Matutino" /\ sel_turno = "6am-2pm"
    /\ Len(sheet) = 1 /\ sheet[1].HorarioS = "Matutino" /\ sheet[1].TurnoS = "6am-2pm"

\* a number was left at "No aplica" (or is not chosen at all)
NoneChosen(numero) == numero \in {NoAplica, Unsel, ""}

\* the outcome the four rules give in their order, the first violated rule only
RuleOutcome ==
    IF sel_tipo = Unsel \/ BasicsMissing(ev.form) THEN "MissingBasicFields"
    ELSE IF ~CascadeResolved THEN "MissingCascadeFields"
    ELSE IF Len(NumbersListed(sel_rol, "Numero_IN")) > 0 /\ NoneChosen(ev.form.numero_in)
    THEN "MissingInboundNumber"
    ELSE IF Len(NumbersListed(sel_rol, "Numero_Saliente")) > 0 /\ NoneChosen(ev.form.numero_saliente)
    THEN "MissingOutboundNumber"
    ELSE "Accepted"

\* the outcome the run had: the warning it showed, if any
RunOutcome ==
    IF msg = "warn_basicos" THEN "MissingBasicFields"
    ELSE IF msg \in {"warn_cascada", "warn_horario"} THEN "MissingCascadeFields"
    ELSE IF msg = "warn_numero_in" THEN "MissingInboundNumber"
    ELSE IF msg = "warn_numero_saliente" THEN "MissingOutboundNumber"
    ELSE "Accepted"

\* C14: a submit of the Alta/Modificación form has the outcome of the first
\* rule it violates, in the order basic fields, cascade fields, inbound
\* number, outbound number, and is accepted when it violates none.
C14_ValidationPrecedence ==
    ev.key = "solicitud_form_alta_mod" => RunOutcome = RuleOutcome

\* C15: an Alta or Modificación submit with its basic fields present is
\* rejected for its cascade fields if and only if area, perfil or rol is
\* unselected, or the perfil requires a horario and none is selected.
C15_CascadeRule ==
    (SolSubmitted /\ ~BasicsMissing(ev.form)) =>
        /\ (msg \in {"warn_cascada", "warn_horario"}) <=> ~CascadeResolved
        /\ (msg = "warn_cascada") <=> (sel_area = Unsel \/ sel_perfil = Unsel \/ sel_rol = Unsel)
        /\ ~CascadeResolved => (pc = "idle" /\ fila = NoFila)
        /\ CascadeResolved => (pc # "idle" \/ msg \in {"success", "error"})

C15_Witness ==
    /\ SolSubmitted /\ ~BasicsMissing(ev.form)
    /\ msg = "warn_horario" /\ sel_rol = "Agente Ventas" /\ sel_horario = Unsel

\* C16: an Alta or Modificación submit that passes the basic and cascade
\* rules, for a rol with inbound numbers in the catalog, and with the inbound
\* number left at "No aplica", is rejected for the inbound number and hands
\* no row to append_row.
C16_InboundRequired ==
    (/\ SolSubmitted /\ ~BasicsMissing(ev.form) /\ CascadeResolved
     /\ Len(NumbersListed(sel_rol, "Numero_IN")) > 0
     /\ NoneChosen(ev.form.numero_in)) =>
        (RunOutcome = "MissingInboundNumber" /\ pc = "idle" /\ fila = NoFila)

\* C17: an Alta or Modificación submit that passes the earlier rules, for a
\* rol with outbound numbers in the catalog, and with no outbound number
\* chosen, is rejected for the outbound number and hands no row to append_row.
C17_OutboundRequired ==
    (/\ SolSubmitted /\ ~BasicsMissing(ev.form) /\ CascadeResolved
     /\ ~(Len(NumbersListed(sel_rol, "Numero_IN")) > 0 /\ NoneChosen(ev.form.numero_in))
     /\ Len(NumbersListed(sel_rol, "Numero_Saliente")) > 0
     /\ NoneChosen(ev.form.numero_saliente)) =>
        (RunOutcome = "MissingOutboundNumber" /\ pc = "idle" /\ fila = NoFila)

\* the values of all fields of a record, and of its selection fields
RowFields(r) ==
    {r.TipoS, r.NombreS, r.CorreoS, r.AreaS, r.PerfilS, r.RolS, r.NumeroINS,
     r.NumeroSalienteS, r.HorarioS, r.TurnoS, r.SolicitanteS, r.EstadoS,
     r.SatisfaccionS, r.ComentarioSatisfaccionS}
SelFields(r) ==
    {r.TipoS, r.AreaS, r.PerfilS, r.RolS, r.NumeroINS, r.NumeroSalienteS,
     r.HorarioS, r.TurnoS}

\* C18 (as claimed): no record of any submit, Alta, Modificación or Baja,
\* carries a placeholder text ("Selecciona...", "No aplica", "N/A") in any
\* field.
C18_NoSentinelWritten ==
    \A r \in Records : RowFields(r) \cap {Unsel, NoAplica, "N/A"} = {}

\* C18 (amended): no record carries "Selecciona..." or "No aplica" in a
\* selection field; in an Alta or Modificación record a number left at
\* "No aplica" and a horario and turno that are not selected are the empty
\* string and no field is "N/A"; a Baja record has "N/A" as its area, perfil
\* and rol and empty numbers, horario and turno.
C18_SentinelsToEmpty ==
    /\ \A r \in Records :
          /\ SelFields(r) \cap {Unsel, NoAplica} = {}
          /\ r.TipoS # "Baja" => "N/A" \notin RowFields(r)
          /\ r.TipoS = "Baja" =>
                /\ r.AreaS = "N/A" /\ r.PerfilS = "N/A" /\ r.RolS = "N/A"
                /\ r.NumeroINS = "" /\ r.NumeroSalienteS = ""
                /\ r.HorarioS = "" /\ r.TurnoS = ""
    /\ (pc = "calling" /\ SolSubmitted) =>
          /\ NoneChosen(ev.form.numero_in) => fila.NumeroINS = ""
          /\ NoneChosen(ev.form.numero_saliente) => fila.NumeroSalienteS = ""
          /\ sel_horario = Unsel => (fila.HorarioS = "" /\ fila.TurnoS = "")

C18_Witness ==
    /\ msg = "success" /\ SolSubmitted /\ Len(sheet) = 1
    /\ ev.form.numero_saliente = NoAplica /\ sel_horario = Unsel
    /\ sheet[1].RolS = "Supervisor Soporte"
    /\ sheet[1].NumeroSalienteS = "" /\ sheet[1].HorarioS = "" /\ sheet[1].TurnoS = ""

\* C19: in every appended Alta or Modificación record the rol is listed in
\* the catalog under the record's area and perfil, and the horario, when it
\* is not empty, is a key of the table of horarios.
C19_RecordInCatalog ==
    \A k \in 1..Len(sheet) :
        sheet[k].TipoS # "Baja" =>
            /\ Listed(sheet[k].AreaS, sheet[k].PerfilS, sheet[k].RolS)
            /\ \/ sheet[k].HorarioS = ""
               \/ \E h \in 1..Len(horarios_dict) : horarios_dict[h][1] = sheet[k].HorarioS

C19_Witness ==
    /\ Len(sheet) = 1 /\ sheet[1].TipoS = "Alta"
    /\ sheet[1].AreaS = "Soporte" /\ sheet[1].PerfilS = "Agente de Call Center"
    /\ sheet[1].RolS = "Rol Comun" /\ sheet[1].HorarioS = "Matutino"
    /\ sheet[1].TurnoS = "6am-2pm" /\ msg = "success"

\* C20: when a submit has succeeded the form is back in its initial state:
\* tipo, area, perfil, rol and horario unselected, turno empty, and the
\* name and e-mail inputs empty.
C20_ResetAfterSuccess ==
    msg = "success" =>
        /\ sel_tipo = Unsel /\ sel_area = Unsel /\ sel_perfil = Unsel
        /\ sel_rol = Unsel /\ sel_horario = Unsel /\ sel_turno = ""
        /\ inputs.nombre = "" /\ inputs.correo = "" /\ inputs.correo_solicitante = ""

----------------------------------------------------------------------------
(* Properties of the draft, the notifier, the store and the dispatch *)

\* the last run was a submit of one of the two forms
FormSubmitted == ev.key \in {"solicitud_form_alta_mod", "solicitud_form_baja"}

\* the widgets of the form hold what the user sent with the last submit
DraftKept(held) ==
    /\ held.nombre = ev.form.nombre
    /\ held.correo = ev.form.correo
    /\ held.correo_solicitante = ev.form.correo_solicitante
    /\ held.numero_in = ev.form.numero_in
    /\ held.numero_saliente = ev.form.numero_saliente

\* C21: after a submit that validation rejected, every field holds what it
\* held before the submit (the inputs of the form and the tipo, area, perfil,
\* rol and horario), and no row has been handed to the store.
C21_RejectKeepsDraft ==
    (FormSubmitted /\ msg \in {"warn_basicos", "warn_cascada", "warn_horario"}) =>
        /\ DraftKept(inputs)
        /\ Seleccion = prev
        /\ pc = "idle" /\ fila = NoFila

\* C22: when with_backoff gives up after its retries, the submit is reported
\* as failed, no e-mail is sent, and every field still holds what the user
\* had entered.
C22_Step ==
    (pc = "raised" /\ IsExhaustedErr(bo_err)) =>
        /\ msg' = "error" /\ mail' = "none"
        /\ DraftKept(inputs')
        /\ Seleccion' = prev

C22_ExhaustedKeepsDraft == [][C22_Step]_vars

\* C23: enviar_correo is called only when the row has been appended, and
\* whatever it comes to (a failure of the send included) the row stays in
\* the sheet and the submit stays reported as successful; a submit whose
\* append failed sends no e-mail.
C23_MailNeverFailsSubmit ==
    /\ mail # "none" =>
          /\ msg = "success" /\ pc = "idle" /\ FormSubmitted
          /\ \E k \in 1..Len(sheet) :
                /\ sheet[k].NombreS = Strip(ev.form.nombre)
                /\ sheet[k].SolicitanteS = EmailNorm(ev.form.correo_solicitante)
    /\ msg = "error" => mail = "none"
    /\ pc # "idle" => mail = "none"

C23_Witness ==
    /\ mail = "failed" /\ msg = "success" /\ Len(sheet) = 1
    /\ sheet[1].TipoS = "Baja" /\ sheet[1].NombreS = "Ana"

\* C24: on the Alta/Modificación page the inbound number is offered exactly
\* when the catalog lists inbound numbers for the rol, the outbound number
\* exactly when it lists outbound numbers, and the record of a rol that the
\* table of numbers does not hold has both numbers empty.
C24_NumbersOfferedIffListed ==
    /\ (nav_index = 1 /\ sel_tipo # "Baja") =>
          /\ (inputs.numero_in # "") <=> (Len(NumbersListed(sel_rol, "Numero_IN")) > 0)
          /\ (inputs.numero_saliente # "") <=> (Len(NumbersListed(sel_rol, "Numero_Saliente")) > 0)
    /\ \A r \in Records :
          (\A k \in 1..Len(numeros_por_rol) : numeros_por_rol[k][1] # r.RolS) =>
              (r.NumeroINS = "" /\ r.NumeroSalienteS = "")

\* C25: a horario can be chosen only while the perfil is one of those that
\* require it; while the perfil is none of them the horario is unselected and
\* the turno empty, and a record of such a perfil has both empty.
C25_HorarioOnlyForPerfiles ==
    /\ sel_perfil \notin PerfilesConHorario => (sel_horario = Unsel /\ sel_turno = "")
    /\ ev.key = "sol_horario_select" =>
          (prev.perfil \in PerfilesConHorario /\ sel_perfil \in PerfilesConHorario)
    /\ \A r \in Records :
          /\ r.PerfilS \notin PerfilesConHorario => (r.HorarioS = "" /\ r.TurnoS = "")
          /\ r.PerfilS \in PerfilesConHorario => r.HorarioS # ""

C25_Witness ==
    /\ ev.key = "sol_perfil_select" /\ prev.perfil = "Agente de Call Center"
    /\ prev.horario = "Matutino" /\ prev.turno = "6am-2pm"
    /\ sel_perfil = "Supervisor" /\ sel_horario = Unsel /\ sel_turno = ""

\* the rows of the sheet that are the row of the submit in progress
Appended == {k \in 1..Len(sheet) : sheet[k] = fila}

\* C26: a submit adds at most one row, retries included: when with_backoff
\* has returned the sheet holds its row exactly once, pending, with empty
\* satisfaction fields and an id no other row carries; when with_backoff has
\* raised the sheet does not hold the row.
C26_OneRecordPerSubmit ==
    /\ pc \in {"calling", "returned", "raised"} => Cardinality(Appended) <= 1
    /\ pc = "returned" =>
          /\ Cardinality(Appended) = 1
          /\ fila.EstadoS = "Pendiente"
          /\ fila.SatisfaccionS = "" /\ fila.ComentarioSatisfaccionS = ""
    /\ pc = "raised" => Appended = {}
    /\ \A j, k \in 1..Len(sheet) : sheet[j].IDS = sheet[k].IDS => j = k

\* C27: every run executes exactly one branch of the dispatch on the section;
\* for "Solicitudes CRM" it is the first branch of that section, and the
\* second branch of that section is never executed.
C27_OneHandlerPerRun ==
    /\ Cardinality(handlers) = 1
    /\ Seccion(nav_index) = "Solicitudes CRM" => handlers = {"solicitudes_512"}
    /\ "solicitudes_720" \notin handlers

====
